---- MODULE Spec2Model ----
(***************************************************************************)
(* Model of src/Process/Flat/flat.py: the recursive directory flattener.  *)
(*                                                                         *)
(* Names are sequences of one-character strings, so that sanitize_name    *)
(* and the compound names built with the separator are computed character *)
(* by character.  A destination path is a sequence of names, relative to  *)
(* the destination root (the empty path).  File contents are sequences of *)
(* bytes.                                                                  *)
(***************************************************************************)
EXTENDS Integers, Sequences, FiniteSets, TLC

VARIABLES
    tid,                 \* which source tree of Trees the run is given
    action,              \* ACTION: "copy" or "move"      (flat.py:28)
    VERIFY_HASH,         \* --verify                      (flat.py:27)
    SANITIZATION_RULES,  \* the loaded rule list          (flat.py:25)
    WORKERS,             \* max_workers of the pool       (flat.py:297)
    overlap,             \* destination_dir is the source_dir (flat.py:279-280)
    stack,               \* call stack of process_source_directory frames
    ret,                 \* value handed back by the call that just ended
    result,              \* per source directory: how its call ended
    visited,             \* source directories in the order they were called
    tasks,               \* every future submitted to the executor, in order
    srcFiles,            \* source files that still exist: <<dir, index>>
    destDirs,            \* directories that exist under the destination root
    destFiles,           \* files under the destination root: [path, data]
    created,             \* os.makedirs calls made: [node, path, chain]
    errors,              \* error(...) reports of the traversal: [kind, node]
    faults,              \* environment faults injected so far
    mainpc,              \* position of main(): "run", "shutdown", "done"
    success,             \* main()'s success flag
    exit_status,         \* process exit status once mainpc = "done"
    san_name,            \* sanitize_name on its own: its argument input_name
    san_out,             \*   its local output_name
    san_i,               \*   index of the rule the loop of line 77 is at
    san_pc               \*   "off", "start", "loop", "returned"

vars == <<tid, action, VERIFY_HASH, SANITIZATION_RULES, WORKERS, overlap,
          stack, ret,
          result, visited, tasks, srcFiles, destDirs, destFiles, created,
          errors, faults, mainpc, success, exit_status,
          san_name, san_out, san_i, san_pc>>

\* What a run never changes: its configuration, and the variables of a
\* sanitize_name call studied on its own.
config == <<tid, action, VERIFY_HASH, SANITIZATION_RULES, WORKERS, overlap,
            san_name, san_out, san_i, san_pc>>

---------------------------------------------------------------------------
(* Bounds of the model *)

MaxWorkers == 2      \* worker counts 1..MaxWorkers are explored
MaxFaults == 2       \* at most this many environment faults per run
MaxNameLen == 3      \* names given to sanitize_name on its own
MaxRules == 2        \* length of the rule lists given to it

---------------------------------------------------------------------------
(* Source trees.  A tree is a sequence of directories; directory 1 is the  *)
(* source root, parent = 0 marks it.  os.listdir order is the index order. *)

FLATTENING_SEPARATOR == <<"+", "+">>

File(n, d) == [name |-> n, data |-> d]
Dir(n, p, fs) == [name |-> n, parent |-> p, files |-> fs]

\* root/A/B/C/file.txt
TreeChain ==
    << Dir(<<"R">>, 0, <<>>),
       Dir(<<"A">>, 1, <<>>),
       Dir(<<"B">>, 2, <<>>),
       Dir(<<"C">>, 3, << File(<<"f">>, <<1, 2>>) >>) >>

\* root/X/file1.txt, root/X/Y/file2.txt
TreeXY ==
    << Dir(<<"R">>, 0, <<>>),
       Dir(<<"X">>, 1, << File(<<"f">>, <<1>>) >>),
       Dir(<<"Y">>, 2, << File(<<"g">>, <<2, 1>>) >>) >>

\* root with three sibling directories; the second holds two files
TreeSiblings ==
    << Dir(<<"R">>, 0, <<>>),
       Dir(<<"D">>, 1, << File(<<"a">>, <<1>>) >>),
       Dir(<<"E">>, 1, << File(<<"b">>, <<1, 2>>), File(<<"c">>, <<2>>) >>),
       Dir(<<"F">>, 1, << File(<<"d">>, <<2, 2>>) >>) >>

\* root with a file, a collapsing chain P/Q and a sibling S with a child T
TreeMixed ==
    << Dir(<<"R">>, 0, << File(<<"f">>, <<1>>) >>),
       Dir(<<"P">>, 1, <<>>),
       Dir(<<"Q">>, 2, << File(<<"g">>, <<2>>) >>),
       Dir(<<"S">>, 1, << File(<<"h">>, <<1, 1>>) >>),
       Dir(<<"T">>, 4, << File(<<"t">>, <<2>>) >>) >>

\* root with a file, a collapsing chain P/Q and a sibling named "P++Q":
\* both resolve to the destination directory P++Q and hold a file g
TreeCollide ==
    << Dir(<<"R">>, 0, << File(<<"f">>, <<1>>) >>),
       Dir(<<"P">>, 1, <<>>),
       Dir(<<"Q">>, 2, << File(<<"g">>, <<1, 2>>) >>),
       Dir(<<"P", "+", "+", "Q">>, 1, << File(<<"g">>, <<2>>) >>) >>

Trees == << TreeChain, TreeXY, TreeSiblings, TreeMixed, TreeCollide >>

Tree == Trees[tid]
Nodes == 1..Len(Tree)
Root == 1

basename(n) == Tree[n].name

\* The ascending sequence of the members of a finite set of integers.
RECURSIVE SortedSeq(_)
SortedSeq(S) ==
    IF S = {} THEN <<>>
    ELSE LET m == CHOOSE x \in S : \A y \in S : x <= y
         IN  <<m>> \o SortedSeq(S \ {m})

\* os.listdir partitioned as in lines 154-159
child_dirs(n) == SortedSeq({c \in Nodes : Tree[c].parent = n})

\* Faulty variant: the listing loop stops at the first file it finds.
child_files_FirstOnly(n) ==
    LET S == {i \in 1..Len(Tree[n].files) : <<n, i>> \in srcFiles}
    IN  IF S = {} THEN <<>>
        ELSE << CHOOSE i \in S : \A j \in S : i <= j >>

child_files(n) ==
    SortedSeq({i \in 1..Len(Tree[n].files) : <<n, i>> \in srcFiles})

RECURSIVE Subtree(_)
Subtree(n) ==
    {n} \cup UNION {Subtree(c) : c \in {d \in Nodes : Tree[d].parent = n}}

---------------------------------------------------------------------------
(* sanitize_name, lines 68-98.  Regular expressions are modelled for the   *)
(* patterns made of literal characters and ".", which matches any          *)
(* character; a pattern holding "(" is an unbalanced group, which re.sub   *)
(* rejects with re.error.                                                  *)

Rule(p, r, x) == [pattern |-> p, replacement |-> r, is_regex |-> x]

MatchesAt(s, i, p, wild) ==
    /\ i + Len(p) - 1 <= Len(s)
    /\ \A k \in 1..Len(p) : (wild /\ p[k] = ".") \/ s[i + k - 1] = p[k]

\* left-to-right replacement of all non-overlapping matches
RECURSIVE ReplaceFrom(_, _, _, _, _)
ReplaceFrom(s, i, p, r, wild) ==
    IF i > Len(s) THEN <<>>
    ELSE IF MatchesAt(s, i, p, wild)
         THEN r \o ReplaceFrom(s, i + Len(p), p, r, wild)
         ELSE <<s[i]>> \o ReplaceFrom(s, i + 1, p, r, wild)

\* Faulty variant: a literal pattern is handed to the regex engine.
str_replace_AsRegex(s, p, r) == ReplaceFrom(s, 1, p, r, TRUE)

\* str.replace, line 89
str_replace(s, p, r) == ReplaceFrom(s, 1, p, r, FALSE)

re_error(p) == \E k \in 1..Len(p) : p[k] = "("

re_sub(p, r, s) == ReplaceFrom(s, 1, p, r, TRUE)

\* What replace and re.sub do with an empty pattern: the replacement goes
\* before every character and after the last.
RECURSIVE Interleave(_, _, _)
Interleave(r, s, i) ==
    IF i > Len(s) THEN r ELSE r \o <<s[i]>> \o Interleave(r, s, i + 1)

\* Faulty variant: the `if not pattern: continue` of lines 83 and 88 is
\* missing.
ApplyRule_NoEmptySkip(rule, name) ==
    IF rule.pattern = <<>> THEN Interleave(rule.replacement, name, 1)
    ELSE IF rule.is_regex
         THEN IF re_error(rule.pattern) THEN name
              ELSE re_sub(rule.pattern, rule.replacement, name)
         ELSE str_replace(name, rule.pattern, rule.replacement)

\* lines 78-97: one iteration of the loop
ApplyRule(rule, name) ==
    IF rule.pattern = <<>> THEN name
    ELSE IF rule.is_regex
         THEN IF re_error(rule.pattern) THEN name
              ELSE re_sub(rule.pattern, rule.replacement, name)
         ELSE str_replace(name, rule.pattern, rule.replacement)

\* Faulty variant: each rule is applied to the name the call was given, so
\* only the last rule's effect is returned.
SanitizeFrom_OnOriginal(rules, i, name) ==
    IF rules = <<>> THEN name ELSE ApplyRule(rules[Len(rules)], name)

RECURSIVE SanitizeFrom(_, _, _)
SanitizeFrom(rules, i, name) ==
    IF i > Len(rules) THEN name
    ELSE SanitizeFrom(rules, i + 1, ApplyRule(rules[i], name))

sanitize_name(input_name) ==
    IF SANITIZATION_RULES = <<>> THEN input_name
    ELSE SanitizeFrom(SANITIZATION_RULES, 1, input_name)

RuleSets ==
    { <<>>,
      << Rule(<<"+">>, <<"_">>, FALSE) >>,
      << Rule(<<"(">>, <<"x">>, TRUE), Rule(<<"S">>, <<>>, FALSE) >>,
      << Rule(<<"P">>, <<"P", "P">>, FALSE) >> }

---------------------------------------------------------------------------
(* Hashing and copying, lines 31-66.  hashlib.sha256 is modelled by an     *)
(* injective running digest: two contents have the same digest exactly     *)
(* when they are the same byte sequence.                                   *)

sha256_new == 1
sha256_update(h, block) == h * 4 + (block + 1)

RECURSIVE DigestFrom(_, _, _)
DigestFrom(h, bytes, i) ==
    IF i > Len(bytes) THEN h
    ELSE DigestFrom(sha256_update(h, bytes[i]), bytes, i + 1)

\* get_file_sha256 of a file holding `bytes`
get_file_sha256(bytes) == DigestFrom(sha256_new, bytes, 1)

\* copy_and_hash: the digest and the bytes written both come from the one
\* read pass, `stream` being what fsrc.read delivered until it returned b"".
copy_and_hash(stream) ==
    [hash |-> DigestFrom(sha256_new, stream, 1), written |-> stream]

\* What the environment may do to one transfer.
\*   "none"      nothing goes wrong
\*   "ioerror"   open/read/write/rename raises before anything is written
\*   "lateerror" a later step raises, once the bytes have landed: copystat
\*               (line 50, or inside copy2), the re-hash of the destination
\*               (lines 113, 131), or the removal of the source after a
\*               move made by copying
\*   "truncated" the read pass yields only the first `cut` source bytes
\*   "corrupt"   the bytes that land in the destination are not those written
FaultKinds == {"none", "ioerror", "lateerror", "truncated", "corrupt"}

ReadStream(data, fault, cut) ==
    IF fault = "truncated" THEN SubSeq(data, 1, cut) ELSE data

Stored(written, fault) ==
    IF fault = "corrupt" THEN Append(written, 0) ELSE written

\* The path of a source directory and of a source file below the source
\* root.  When destination_dir is the source_dir these are destination
\* paths as well, and the source files are the files found there.
RECURSIVE SrcDirPath(_)
SrcDirPath(n) ==
    IF n = Root THEN <<>>
    ELSE Append(SrcDirPath(Tree[n].parent), basename(n))

SrcFilePath(n, i) == Append(SrcDirPath(n), Tree[n].files[i].name)

AllSrcKeys == UNION {{<<n, i>> : i \in 1..Len(Tree[n].files)} : n \in Nodes}

\* the bytes a source file holds now
SrcData(t) ==
    IF overlap /\ \E e \in destFiles : e.path = SrcFilePath(t.dir, t.fidx)
    THEN (CHOOSE e \in destFiles : e.path = SrcFilePath(t.dir, t.fidx)).data
    ELSE Tree[t.dir].files[t.fidx].data

\* source and destination of the transfer are one file
SameFile(t) == overlap /\ t.dst = SrcFilePath(t.dir, t.fidx)

ParentPath(p) == SubSeq(p, 1, Len(p) - 1)

\* A transfer raises when the fault is an I/O error, when the source is gone,
\* or when the destination's parent is not an existing directory.
TransferRaises(t, fault) ==
    \/ fault = "ioerror"
    \/ <<t.dir, t.fidx>> \notin srcFiles
    \/ ParentPath(t.dst) \notin destDirs

\* Faulty variant: the worker has no except clause, the exception escapes.
OnException_Propagates(wrote, data, moved) ==
    [ok |-> FALSE, escaped |-> TRUE, detail |-> "exception", hash |-> 0,
     wrote |-> wrote, data |-> data, moved |-> moved]

\* lines 141-143: whatever was raised inside process_file is reported and
\* turned into the return value False
OnException(wrote, data, moved) ==
    [ok |-> FALSE, escaped |-> FALSE, detail |-> "exception", hash |-> 0,
     wrote |-> wrote, data |-> data, moved |-> moved]

\* Faulty variant: the comparison is lost, every verification passes.
hash_mismatch_Never(source_hash, destination_hash) == FALSE

\* lines 114 and 132
hash_mismatch(source_hash, destination_hash) ==
    source_hash # destination_hash

\* lines 116, 134 and 139: the result once both hashes are known
Verified(source_hash, destination_hash, data, moved) ==
    IF hash_mismatch(source_hash, destination_hash)
    THEN [ok |-> FALSE, escaped |-> FALSE, detail |-> "mismatch",
          hash |-> source_hash, wrote |-> TRUE, data |-> data,
          moved |-> moved]
    ELSE [ok |-> TRUE, escaped |-> FALSE, detail |-> "", hash |-> source_hash,
          wrote |-> TRUE, data |-> data, moved |-> moved]

\* process_file when source_path and destination_path name one file.
\*   copy, verify:  open(dst, 'wb') of line 43 empties the file before the
\*                  first read of line 44, which then returns b""
\*   copy:          shutil.copy2 (line 118) raises SameFileError
\*   move:          shutil.move (line 127) renames the file onto itself
process_same_file(t, fault) ==
    IF action = "copy"
    THEN IF VERIFY_HASH
         THEN LET c == copy_and_hash(<<>>)
                  landed == Stored(c.written, fault)
              IN  IF fault = "lateerror"
                  THEN OnException(TRUE, landed, FALSE)
                  ELSE Verified(c.hash, get_file_sha256(landed), landed,
                                FALSE)
         ELSE OnException(FALSE, <<>>, FALSE)
    ELSE IF fault = "lateerror"
         THEN OnException(FALSE, <<>>, FALSE)
         ELSE IF VERIFY_HASH
              THEN Verified(get_file_sha256(SrcData(t)),
                            get_file_sha256(SrcData(t)), SrcData(t), FALSE)
              ELSE [ok |-> TRUE, escaped |-> FALSE, detail |-> "",
                    hash |-> 0, wrote |-> FALSE, data |-> <<>>,
                    moved |-> FALSE]

\* process_file, lines 101-143: the returned value (ok), the error reported
\* (detail), the source hash taken (hash, 0 when none is), and the effect
\* on the files (wrote: data is now at the destination path; moved: the
\* source path is gone).  escaped: an exception left the worker.
process_file(t, fault, cut) ==
    IF TransferRaises(t, fault)
    THEN OnException(FALSE, <<>>, FALSE)
    ELSE IF SameFile(t)
    THEN process_same_file(t, fault)
    ELSE LET stream == ReadStream(SrcData(t), fault, cut)
             landed == Stored(stream, fault)
         IN  IF fault = "lateerror"
             THEN OnException(TRUE, landed, action = "move" /\ VERIFY_HASH)
             ELSE IF action = "copy"
             THEN IF VERIFY_HASH
                  THEN LET c == copy_and_hash(stream)
                       IN  Verified(c.hash,
                                    get_file_sha256(Stored(c.written, fault)),
                                    landed, FALSE)
                  ELSE [ok |-> TRUE, escaped |-> FALSE, detail |-> "",
                        hash |-> 0, wrote |-> TRUE, data |-> landed,
                        moved |-> FALSE]
             ELSE IF VERIFY_HASH
                  THEN Verified(get_file_sha256(SrcData(t)),
                                get_file_sha256(landed), landed, TRUE)
                  ELSE [ok |-> TRUE, escaped |-> FALSE, detail |-> "",
                        hash |-> 0, wrote |-> TRUE, data |-> landed,
                        moved |-> TRUE]

---------------------------------------------------------------------------
(* The call stack of process_source_directory, lines 147-217.  A frame is  *)
(* one call; pc is where the call stands:                                  *)
(*   "enter"      called, nothing done yet                                 *)
(*   "collapsed"  inside the recursive call of line 172                    *)
(*   "submit"     in the submission loop of lines 198-204                  *)
(*   "wait"       in the as_completed loop of lines 207-210                *)
(*   "recurse"    in the loop over child_dirs of lines 213-215             *)
(*   "incall"     inside the recursive call of line 214                    *)
(* chain lists the source directories whose base names make up acc.        *)

Frame(n, dparent, acc, chain) ==
    [node |-> n, dparent |-> dparent, acc |-> acc, chain |-> chain,
     pc |-> "enter", final |-> <<>>, files |-> <<>>, futures |-> <<>>,
     seen |-> {}, fi |-> 1, ci |-> 1]

Top == stack[Len(stack)]
Pop == SubSeq(stack, 1, Len(stack) - 1)
SetTop(f) == [stack EXCEPT ![Len(stack)] = f]

Running == stack # <<>> /\ ret = "none"
At(pc) == Running /\ Top.pc = pc

\* line 150: the accumulated name the call works with
accumulated_flattened_name(f) ==
    IF f.acc # <<>> THEN sanitize_name(f.acc) ELSE f.acc

\* Faulty variant: the flattening case is never taken.
IsCollapse_Never(n) == FALSE

\* line 165
IsCollapse(n) == Len(child_dirs(n)) = 1 /\ child_files(n) = <<>>

\* line 169
new_accumulated_name(f) ==
    LET acc == accumulated_flattened_name(f)
    IN  (IF acc # <<>> THEN acc ELSE basename(f.node))
            \o FLATTENING_SEPARATOR \o basename(child_dirs(f.node)[1])

\* Faulty variant: line 177 is missing, the name is used as it stands.
final_dir_name_Unsanitized(f) ==
    LET acc == accumulated_flattened_name(f)
    IN  IF acc # <<>> THEN acc ELSE basename(f.node)

\* lines 176-177
final_dir_name(f) ==
    LET acc == accumulated_flattened_name(f)
    IN  sanitize_name(IF acc # <<>> THEN acc ELSE basename(f.node))

\* line 179
is_processing_root_contents(f) ==
    f.node = Root /\ accumulated_flattened_name(f) = <<>>

\* line 180
final_dest_dir_path(f) ==
    IF is_processing_root_contents(f) THEN f.dparent
    ELSE Append(f.dparent, final_dir_name(f))

\* os.path.exists of a destination path
PathExists(p) == p \in destDirs \/ \E e \in destFiles : e.path = p

\* The call of the top frame ends, handing r to its caller.
Return(r) ==
    /\ stack' = Pop
    /\ ret' = r
    /\ result' = [result EXCEPT ![Top.node] = r]

NoFs == UNCHANGED <<srcFiles, destDirs, destFiles, created>>
NoMain == UNCHANGED <<mainpc, success, exit_status>>
Report(kind) == errors' = errors \cup {[kind |-> kind, node |-> Top.node]}

\* Faulty variant: the error is reported and the call carries on as if the
\* directory had been done.
OnDirectoryError_Continue == "true"

\* lines 162 and 192: what the call returns after a failed os.listdir or
\* os.makedirs
OnDirectoryError == "false"

\* An exception leaves the call before it has done anything (the printing
\* of line 148, or the interpreter's recursion limit): it is caught nowhere
\* below main().
EnterRaise ==
    /\ At("enter") /\ faults < MaxFaults
    /\ Return("raise")
    /\ faults' = faults + 1
    /\ NoFs /\ NoMain /\ UNCHANGED <<config, visited, tasks, errors>>

\* lines 153-162: os.listdir raises
EnterListFail ==
    /\ At("enter") /\ faults < MaxFaults
    /\ Return(OnDirectoryError) /\ Report("list")
    /\ faults' = faults + 1
    /\ NoFs /\ NoMain /\ UNCHANGED <<config, visited, tasks>>

\* lines 165-172: exactly one child directory and no files
EnterCollapse ==
    /\ At("enter") /\ IsCollapse(Top.node)
    /\ LET f == Top
           child == child_dirs(f.node)[1]
           chain == IF accumulated_flattened_name(f) # <<>>
                    THEN Append(f.chain, child) ELSE <<f.node, child>>
       IN  /\ stack' = Append(SetTop([f EXCEPT !.pc = "collapsed"]),
                              Frame(child, f.dparent, new_accumulated_name(f),
                                    chain))
           /\ visited' = Append(visited, child)
    /\ NoFs /\ NoMain
    /\ UNCHANGED <<config, ret, result, tasks, errors, faults>>

\* lines 183-185: the final name is empty after sanitization
EnterSkipEmpty ==
    /\ At("enter") /\ ~IsCollapse(Top.node)
    /\ ~is_processing_root_contents(Top) /\ final_dir_name(Top) = <<>>
    /\ Return("true") /\ Report("empty")
    /\ NoFs /\ NoMain /\ UNCHANGED <<config, visited, tasks, faults>>

\* lines 186-192: os.makedirs raises
EnterMkdirFail ==
    /\ At("enter") /\ ~IsCollapse(Top.node)
    /\ ~is_processing_root_contents(Top) /\ final_dir_name(Top) # <<>>
    /\ ~PathExists(final_dest_dir_path(Top))
    /\ faults < MaxFaults
    /\ Return(OnDirectoryError) /\ Report("mkdir")
    /\ faults' = faults + 1
    /\ NoFs /\ NoMain /\ UNCHANGED <<config, visited, tasks>>

\* lines 175-197: the directory materializes (or is the root's contents)
EnterBranch ==
    /\ At("enter") /\ ~IsCollapse(Top.node)
    /\ is_processing_root_contents(Top) \/ final_dir_name(Top) # <<>>
    /\ LET f == Top
           dest == final_dest_dir_path(f)
           files == child_files(f.node)
           make == ~is_processing_root_contents(f) /\ ~PathExists(dest)
           chain == IF accumulated_flattened_name(f) # <<>>
                    THEN f.chain ELSE <<f.node>>
       IN  /\ destDirs' = IF make THEN destDirs \cup {dest} ELSE destDirs
           /\ created' = IF make
                         THEN created \cup {[node |-> f.node, path |-> dest,
                                             chain |-> chain]}
                         ELSE created
           /\ stack' = SetTop([f EXCEPT !.final = dest, !.files = files,
                                 !.pc = IF files = <<>> THEN "wait"
                                        ELSE "submit"])
    /\ NoMain
    /\ UNCHANGED <<config, ret, result, visited, tasks, srcFiles, destFiles,
                   errors, faults>>

\* Faulty variant: the directory's base name is joined in place of the
\* file's.
destination_file_path_DirName(f, i) == Append(f.final, basename(f.node))

\* lines 199-200
destination_file_path(f, i) == Append(f.final, Tree[f.node].files[i].name)

\* lines 198-204: one executor.submit of the submission loop
Submit ==
    /\ At("submit")
    /\ LET f == Top
           i == f.files[f.fi]
           t == [dir |-> f.node, fidx |-> i,
                 dst |-> destination_file_path(f, i),
                 st |-> "pending", ok |-> FALSE, fault |-> "none",
                 escaped |-> FALSE, detail |-> "", hash |-> 0]
       IN  /\ tasks' = Append(tasks, t)
           /\ stack' = SetTop([f EXCEPT !.futures = Append(@, Len(tasks) + 1),
                                 !.fi = @ + 1,
                                 !.pc = IF f.fi = Len(f.files) THEN "wait"
                                        ELSE "submit"])
    /\ NoFs /\ NoMain
    /\ UNCHANGED <<config, ret, result, visited, errors, faults>>

\* Faulty variant: a failing result is not noticed.
FutureFailed_Ignored(t) == FALSE

\* line 208: the test made on each completed future
FutureFailed(t) == ~t.ok

Futures(f) == {f.futures[k] : k \in 1..Len(f.futures)}

\* lines 207-210: as_completed yields a finished future; a failing result
\* returns False at once.  (Futures already finished are yielded in no
\* particular order.)  future.result() re-raises what escaped the worker.
WaitNext ==
    /\ At("wait")
    /\ \E id \in Futures(Top) \ Top.seen :
          /\ tasks[id].st = "done"
          /\ IF tasks[id].escaped
             THEN Return("raise")
             ELSE IF FutureFailed(tasks[id])
             THEN Return("false")
             ELSE /\ stack' = SetTop([Top EXCEPT !.seen = @ \cup {id}])
                  /\ UNCHANGED <<ret, result>>
    /\ NoFs /\ NoMain /\ UNCHANGED <<config, visited, tasks, errors, faults>>

\* Faulty variant: the loop ends without waiting for the futures.
AsCompletedExhausted_NoWait(f) == TRUE

\* line 207: as_completed has yielded every future of the directory
AsCompletedExhausted(f) == f.seen = Futures(f)

\* line 207: as_completed is exhausted, every future gave True
WaitDone ==
    /\ At("wait") /\ AsCompletedExhausted(Top)
    /\ stack' = SetTop([Top EXCEPT !.pc = "recurse"])
    /\ NoFs /\ NoMain
    /\ UNCHANGED <<config, ret, result, visited, tasks, errors, faults>>

\* lines 213-214: the call into the next child directory, or line 217
Recurse ==
    /\ At("recurse")
    /\ LET f == Top
           dirs == child_dirs(f.node)
       IN  IF f.ci > Len(dirs)
           THEN Return("true") /\ UNCHANGED visited
           ELSE /\ stack' = Append(SetTop([f EXCEPT !.pc = "incall"]),
                                   Frame(dirs[f.ci], f.final, <<>>, <<>>))
                /\ visited' = Append(visited, dirs[f.ci])
                /\ UNCHANGED <<ret, result>>
    /\ NoFs /\ NoMain /\ UNCHANGED <<config, tasks, errors, faults>>

\* line 172: the collapsed call returns what its single child returned
\* (and an exception passes through it)
ResumeCollapsed ==
    /\ stack # <<>> /\ ret # "none" /\ Top.pc = "collapsed"
    /\ stack' = Pop
    /\ result' = [result EXCEPT ![Top.node] = ret]
    /\ NoFs /\ NoMain
    /\ UNCHANGED <<config, ret, visited, tasks, errors, faults>>

\* Faulty variant: the loop goes on to the next sibling after a failure.
SiblingContinues_OnFailure(r) == r # "raise"

\* line 214: does the loop over child_dirs go on after a child returned r
SiblingContinues(r) == r = "true"

\* lines 213-215: back from a child directory
ResumeSibling ==
    /\ stack # <<>> /\ ret # "none" /\ Top.pc = "incall"
    /\ IF SiblingContinues(ret)
       THEN /\ stack' = SetTop([Top EXCEPT !.ci = @ + 1, !.pc = "recurse"])
            /\ ret' = "none"
            /\ UNCHANGED result
       ELSE /\ stack' = Pop
            /\ result' = [result EXCEPT
                            ![Top.node] = IF ret = "raise" THEN "raise"
                                          ELSE "false"]
            /\ ret' = IF ret = "raise" THEN "raise" ELSE "false"
    /\ NoFs /\ NoMain /\ UNCHANGED <<config, visited, tasks, errors, faults>>

---------------------------------------------------------------------------
(* The thread pool: futures are started in submission order, at most       *)
(* WORKERS at a time, and each runs process_file to its end.               *)

TaskIds == 1..Len(tasks)
InState(st) == {id \in TaskIds : tasks[id].st = st}
InFlight == InState("pending") \cup InState("running")

WorkerStart ==
    /\ InState("pending") # {}
    /\ Cardinality(InState("running")) < WORKERS
    /\ LET id == CHOOSE x \in InState("pending") :
                    \A y \in InState("pending") : x <= y
       IN  tasks' = [tasks EXCEPT ![id].st = "running"]
    /\ NoFs /\ NoMain
    /\ UNCHANGED <<config, stack, ret, result, visited, errors, faults>>

\* Faulty variant: a failed transfer removes what it put at the destination.
DestAfter_Rollback(t, r) ==
    IF r.wrote /\ r.ok
    THEN {e \in destFiles : e.path # t.dst}
             \cup {[path |-> t.dst, data |-> r.data]}
    ELSE {e \in destFiles : e.path # t.dst}

\* Faulty variant: a destination file that exists already is kept.
DestAfter_KeepExisting(t, r) ==
    IF r.wrote /\ t.dst \notin {e.path : e \in destFiles}
    THEN destFiles \cup {[path |-> t.dst, data |-> r.data]}
    ELSE destFiles

\* lines 43-49, 118, 127: the destination files once the transfer has run;
\* nothing is removed when it fails
DestAfter(t, r) ==
    IF r.wrote
    THEN {e \in destFiles : e.path # t.dst}
             \cup {[path |-> t.dst, data |-> r.data]}
    ELSE destFiles

WorkerRun(id, fault, cut) ==
    /\ tasks[id].st = "running"
    /\ fault # "none" => faults < MaxFaults
    /\ fault = "truncated" => cut < Len(SrcData(tasks[id]))
    /\ fault # "truncated" => cut = 0
    /\ LET t == tasks[id]
           r == process_file(t, fault, cut)
           \* one tree holds both: a move takes the file away from its
           \* source path, a write brings the file at its path into being
           gone == IF r.moved THEN {<<t.dir, t.fidx>>} ELSE {}
           back == IF overlap /\ r.wrote
                   THEN {k \in AllSrcKeys : SrcFilePath(k[1], k[2]) = t.dst}
                   ELSE {}
       IN  /\ tasks' = [tasks EXCEPT ![id].st = "done", ![id].ok = r.ok,
                                     ![id].fault = fault,
                                     ![id].escaped = r.escaped,
                                     ![id].detail = r.detail,
                                     ![id].hash = r.hash]
           /\ destFiles' =
                  IF overlap /\ r.moved
                  THEN {e \in DestAfter(t, r) :
                           e.path # SrcFilePath(t.dir, t.fidx)}
                  ELSE DestAfter(t, r)
           /\ srcFiles' = (srcFiles \ gone) \cup back
    /\ faults' = IF fault = "none" THEN faults ELSE faults + 1
    /\ NoMain
    /\ UNCHANGED <<config, stack, ret, result, visited, destDirs, created,
                   errors>>

---------------------------------------------------------------------------
(* main(), lines 293-316 *)

\* lines 299-306: the traversal returned or raised; the `with` block is left
MainAfterTraversal ==
    /\ mainpc = "run" /\ stack = <<>> /\ ret # "none"
    /\ success' = (ret = "true")
    /\ mainpc' = "shutdown"
    /\ NoFs
    /\ UNCHANGED <<config, stack, ret, result, visited, tasks, errors,
                   faults, exit_status>>

\* Faulty variant: sys.exit(1) is missing.
ExitStatus_AlwaysZero(ok) == 0

\* lines 312-316
ExitStatus(ok) == IF ok THEN 0 ELSE 1

\* Faulty variant: the pool is shut down without waiting for its futures.
PoolJoined_NoWait == TRUE

\* line 297: ThreadPoolExecutor.__exit__ is shutdown(wait=True), which
\* returns once every submitted future has run
PoolJoined == InFlight = {}

\* line 297: leaving the `with` block joins the pool (shutdown(wait=True)),
\* then lines 308-316 report and exit
MainExit ==
    /\ mainpc = "shutdown" /\ PoolJoined
    /\ exit_status' = ExitStatus(success)
    /\ mainpc' = "done"
    /\ NoFs
    /\ UNCHANGED <<config, stack, ret, result, visited, tasks, errors,
                   faults, success>>

---------------------------------------------------------------------------

Init ==
    /\ tid \in 1..Len(Trees)
    /\ action \in {"copy", "move"}
    /\ VERIFY_HASH \in BOOLEAN
    /\ SANITIZATION_RULES \in RuleSets
    /\ WORKERS \in 1..MaxWorkers
    /\ overlap = FALSE
    /\ stack = << Frame(Root, <<>>, <<>>, <<>>) >>
    /\ ret = "none"
    /\ result = [n \in Nodes |-> "none"]
    /\ visited = << Root >>
    /\ tasks = <<>>
    /\ srcFiles = UNION {{<<n, i>> : i \in 1..Len(Tree[n].files)} : n \in Nodes}
    /\ destDirs = { <<>> }
    /\ destFiles = {}
    /\ created = {}
    /\ errors = {}
    /\ faults = 0
    /\ mainpc = "run"
    /\ success = TRUE
    /\ exit_status = -1
    /\ san_name = <<>> /\ san_out = <<>> /\ san_i = 0 /\ san_pc = "off"

Next ==
    \/ EnterRaise
    \/ EnterListFail
    \/ EnterCollapse
    \/ EnterSkipEmpty
    \/ EnterMkdirFail
    \/ EnterBranch
    \/ Submit
    \/ WaitNext
    \/ WaitDone
    \/ Recurse
    \/ ResumeCollapsed
    \/ ResumeSibling
    \/ WorkerStart
    \/ \E id \in TaskIds, fault \in FaultKinds :
          \E cut \in 0..Len(SrcData(tasks[id])) : WorkerRun(id, fault, cut)
    \/ MainAfterTraversal
    \/ MainExit

Spec == Init /\ [][Next]_vars

\* A run whose destination_dir is its source_dir (lines 279-290 accept it):
\* the destination root holds the source tree from the start.
OverlapInit ==
    /\ tid \in 1..Len(Trees)
    /\ action \in {"copy", "move"}
    /\ VERIFY_HASH \in BOOLEAN
    /\ SANITIZATION_RULES \in RuleSets
    /\ WORKERS \in 1..MaxWorkers
    /\ overlap = TRUE
    /\ stack = << Frame(Root, <<>>, <<>>, <<>>) >>
    /\ ret = "none"
    /\ result = [n \in Nodes |-> "none"]
    /\ visited = << Root >>
    /\ tasks = <<>>
    /\ srcFiles = AllSrcKeys
    /\ destDirs = {SrcDirPath(n) : n \in Nodes}
    /\ destFiles = {[path |-> SrcFilePath(k[1], k[2]),
                     data |-> Tree[k[1]].files[k[2]].data] : k \in AllSrcKeys}
    /\ created = {}
    /\ errors = {}
    /\ faults = 0
    /\ mainpc = "run"
    /\ success = TRUE
    /\ exit_status = -1
    /\ san_name = <<>> /\ san_out = <<>> /\ san_i = 0 /\ san_pc = "off"

OverlapSpec == OverlapInit /\ [][Next]_vars

\* The coordinating thread and the pool's worker threads keep being
\* scheduled: a run does not stop while one of them has a step to take.
LiveSpec == Init /\ [][Next]_vars /\ WF_vars(Next)

---------------------------------------------------------------------------
(* sanitize_name on its own, lines 68-98: one call, on every name of at    *)
(* most MaxNameLen characters and every list of at most MaxRules rules,    *)
(* one iteration of the loop of line 77 per step.                          *)

SanChars == {"a", "b", "."}

SanRules ==
    { Rule(<<"a">>, <<"b">>, FALSE),
      Rule(<<"b">>, <<>>, FALSE),
      Rule(<<"a">>, <<"a", "a">>, FALSE),
      Rule(<<".">>, <<"b">>, FALSE),
      Rule(<<"a", ".">>, <<"b">>, TRUE),
      Rule(<<"(">>, <<"a">>, TRUE),
      Rule(<<>>, <<"a">>, FALSE) }

SeqsUpTo(S, n) == UNION {[1..k -> S] : k \in 0..n}

SanRun == <<tid, action, VERIFY_HASH, WORKERS, overlap, stack, ret, result, visited,
            tasks, srcFiles, destDirs, destFiles, created, errors, faults,
            mainpc, success, exit_status>>

SanInit ==
    /\ tid = 1 /\ action = "copy" /\ VERIFY_HASH = FALSE /\ WORKERS = 1
    /\ overlap = FALSE
    /\ stack = <<>> /\ ret = "none"
    /\ result = [n \in Nodes |-> "none"]
    /\ visited = <<>> /\ tasks = <<>> /\ srcFiles = {}
    /\ destDirs = {} /\ destFiles = {} /\ created = {} /\ errors = {}
    /\ faults = 0 /\ mainpc = "off" /\ success = TRUE /\ exit_status = -1
    /\ SANITIZATION_RULES \in SeqsUpTo(SanRules, MaxRules)
    /\ san_name \in SeqsUpTo(SanChars, MaxNameLen)
    /\ san_out = san_name
    /\ san_i = 1
    /\ san_pc = "start"

\* lines 73-75: no rules loaded
SanNoRules ==
    /\ san_pc = "start" /\ SANITIZATION_RULES = <<>>
    /\ san_pc' = "returned"
    /\ UNCHANGED <<SanRun, SANITIZATION_RULES, san_name, san_out, san_i>>

\* lines 77-97: one rule applied to the current output_name
SanApplyRule ==
    /\ san_pc \in {"start", "loop"}
    /\ san_i <= Len(SANITIZATION_RULES)
    /\ san_out' = ApplyRule(SANITIZATION_RULES[san_i], san_out)
    /\ san_i' = san_i + 1
    /\ san_pc' = "loop"
    /\ UNCHANGED <<SanRun, SANITIZATION_RULES, san_name>>

\* line 98
SanReturn ==
    /\ san_pc = "loop" /\ san_i > Len(SANITIZATION_RULES)
    /\ san_pc' = "returned"
    /\ UNCHANGED <<SanRun, SANITIZATION_RULES, san_name, san_out, san_i>>

SanNext == SanNoRules \/ SanApplyRule \/ SanReturn

SanSpec == SanInit /\ [][SanNext]_vars

---------------------------------------------------------------------------
(* Properties *)

Last(p) == p[Len(p)]
StartsWith(s, p) == Len(p) <= Len(s) /\ SubSeq(s, 1, Len(p)) = p
VisitedSet == {visited[k] : k \in 1..Len(visited)}
DestPaths == {e.path : e \in destFiles}
Finished == mainpc = "done"
ChildSet(n) == {c \in Nodes : Tree[c].parent = n}
OnStack(n, pcs) ==
    \E k \in 1..Len(stack) : stack[k].node = n /\ stack[k].pc \in pcs

\* C1: for root/A/B/C/file.txt, a successful run with separator "++" and
\* no rules places the file at destination/A++B++C/file.txt; A++B++C is the
\* one directory made.
C1_ChainName ==
    (tid = 1 /\ SANITIZATION_RULES = <<>> /\ Finished /\ exit_status = 0)
        => /\ DestPaths = { << <<"A", "+", "+", "B", "+", "+", "C">>,
                              <<"f">> >> }
           /\ {c.path : c \in created} =
                  { << <<"A", "+", "+", "B", "+", "+", "C">> >> }

\* C2: for root/X/file1.txt and root/X/Y/file2.txt, a successful run with
\* no rules produces destination/X/file1.txt and destination/X/Y/file2.txt.
C2_NoCollapseWithFile ==
    (tid = 2 /\ SANITIZATION_RULES = <<>> /\ Finished /\ exit_status = 0)
        => DestPaths = { << <<"X">>, <<"f">> >>,
                         << <<"X">>, <<"Y">>, <<"g">> >> }

\* C3: the base name of the source root is never used as, or as a component
\* of, the name of a directory created under the destination root.
C3_RootNameUnused ==
    \A c \in created :
        /\ \A k \in 1..Len(c.chain) : c.chain[k] # Root
        /\ SANITIZATION_RULES = <<>> =>
              ~StartsWith(Last(c.path),
                          basename(Root) \o FLATTENING_SEPARATOR)

\* The coordinating thread leaves the as_completed loop of its top frame
\* in this step.
LeavesWait ==
    /\ At("wait")
    /\ \/ Len(stack') < Len(stack)
       \/ stack'[Len(stack)].pc # "wait"

\* C4: whenever the coordinating thread leaves the wait on one directory's
\* transfers, with success or with failure, every transfer submitted for
\* that directory has completed.
C4_Barrier ==
    [][LeavesWait => \A id \in Futures(Top) : tasks[id].st = "done"]_vars

\* C5: once the traversal of a child directory has returned failure, no
\* later sibling is visited, nothing is created or submitted for a later
\* sibling's subtree, and the parent's call returns failure; the siblings
\* before it returned True and what they transferred is still in place.
C5_SiblingFailFast ==
    \A p \in Nodes :
        LET ds == child_dirs(p)
        IN  \A i, j \in 1..Len(ds) :
                (i < j /\ result[ds[i]] = "false") =>
                    /\ \A n \in Subtree(ds[j]) :
                          /\ n \notin VisitedSet
                          /\ result[n] = "none"
                          /\ \A c \in created : c.node # n
                          /\ \A id \in TaskIds : tasks[id].dir # n
                    /\ \/ result[p] = "false"
                       \/ /\ result[p] = "none"
                          /\ ret = "false"
                          /\ Top.node = p /\ Top.pc = "incall"
                    /\ \A k \in 1..(i - 1) :
                          /\ result[ds[k]] = "true"
                          /\ \A id \in TaskIds :
                                tasks[id].dir \in Subtree(ds[k]) =>
                                    tasks[id].dst \in DestPaths

C5_Witness ==
    /\ tid = 3 /\ Finished
    /\ result[2] = "true" /\ result[3] = "false" /\ result[Root] = "false"
    /\ 4 \notin VisitedSet
    /\ \E id \in TaskIds : tasks[id].dir = 3 /\ ~tasks[id].ok

\* C6: when a transfer of a directory has produced a failing outcome, the
\* call for that directory returns failure (it is still submitting or
\* waiting, or it has returned False) and none of its child directories is
\* ever visited.
C6_FailedLevelStops ==
    \A id \in TaskIds :
        (tasks[id].st = "done" /\ ~tasks[id].ok) =>
            LET d == tasks[id].dir
            IN  /\ \/ result[d] = "false"
                   \/ result[d] = "none" /\ OnStack(d, {"submit", "wait"})
                /\ \A c \in ChildSet(d) : c \notin VisitedSet

C6_Witness ==
    /\ tid = 2 /\ Finished
    /\ \E id \in TaskIds :
          tasks[id].dir = 2 /\ tasks[id].st = "done" /\ ~tasks[id].ok
    /\ result[2] = "false" /\ 3 \notin VisitedSet

\* C7: a call returns true only if every transfer submitted at its own
\* level and at every level below it has produced a successful outcome.
C7_TrueMeansAllSucceeded ==
    \A n \in Nodes :
        result[n] = "true" =>
            \A id \in TaskIds :
                tasks[id].dir \in Subtree(n) =>
                    tasks[id].st = "done" /\ tasks[id].ok

C7_Witness ==
    /\ tid = 4 /\ result[Root] = "true"
    /\ \E id \in TaskIds : tasks[id].dir = Root
    /\ \E id \in TaskIds : tasks[id].dir = 3
    /\ \E id \in TaskIds : tasks[id].dir = 4

AllTransfersSucceeded ==
    \A id \in TaskIds : tasks[id].st = "done" /\ tasks[id].ok

\* C8 as stated: the exit status is zero exactly when every file transfer
\* of the run succeeded.
C8_ExitIffTransfers ==
    Finished => (exit_status = 0 <=> AllTransfersSucceeded)

\* C8 amended: the exit status is zero exactly when the root traversal
\* returned True, and non-zero when it returned False or raised; a zero
\* status implies that every submitted transfer succeeded, not conversely.
C8_ExitStatus ==
    Finished =>
        /\ exit_status = 0 <=> result[Root] = "true"
        /\ exit_status = 1 <=> result[Root] \in {"false", "raise"}
        /\ exit_status = 0 => AllTransfersSucceeded

C8_Witness ==
    /\ Finished /\ exit_status = 1
    /\ tasks # <<>> /\ AllTransfersSucceeded
    /\ \E e \in errors : e.kind \in {"list", "mkdir"}

\* C9: in copy mode with verification, whenever a transfer reports success,
\* the hash of the destination file equals the hash of the source file.
C9_CopyVerified ==
    [][\A id \in TaskIds :
          ( /\ action = "copy" /\ VERIFY_HASH
            /\ tasks[id].st = "running"
            /\ tasks'[id].st = "done" /\ tasks'[id].ok )
          => \E e \in destFiles' :
                /\ e.path = tasks[id].dst
                /\ get_file_sha256(e.data) =
                       get_file_sha256(SrcData(tasks[id]))]_vars

\* C10: in copy mode with verification, a transfer whose read pass yields
\* only a proper prefix of the source reports failure, and the run ends
\* with a non-zero exit status.
C10_TruncatedReadFails ==
    \A id \in TaskIds :
        ( /\ action = "copy" /\ VERIFY_HASH
          /\ tasks[id].st = "done" /\ tasks[id].fault = "truncated" )
        => /\ ~tasks[id].ok
           /\ Finished => exit_status # 0

\* The transfer of task id runs to its end in this step.
Completes(id) == tasks[id].st = "running" /\ tasks'[id].st = "done"

SrcKey(t) == <<t.dir, t.fidx>>

C12_WorkerNeverRaises ==
    \A id \in TaskIds :
        tasks[id].st = "done" =>
            /\ ~tasks[id].escaped
            /\ tasks[id].fault \in {"ioerror", "lateerror"} =>
                  ~tasks[id].ok /\ tasks[id].detail = "exception"
            /\ tasks[id].detail = "exception" => ~tasks[id].ok

C12_Witness ==
    /\ Finished /\ action = "move" /\ VERIFY_HASH
    /\ \E id \in TaskIds :
          /\ tasks[id].fault = "lateerror" /\ ~tasks[id].ok
          /\ result[tasks[id].dir] = "false"
    /\ \E id \in TaskIds : tasks[id].fault = "ioerror" /\ ~tasks[id].ok

\* C13: on a hash mismatch, in copy mode and in move mode, the worker
\* reports failure and leaves the destination file in place with the bytes
\* that failed the comparison; the source is neither restored nor
\* rewritten (it is still there after a copy, gone after a move).
C13_MismatchLeavesDestination ==
    \A id \in TaskIds :
        (tasks[id].st = "done" /\ tasks[id].detail = "mismatch") =>
            /\ ~tasks[id].ok
            /\ \E e \in destFiles :
                  /\ e.path = tasks[id].dst
                  /\ get_file_sha256(e.data) # tasks[id].hash
            /\ action = "copy" => SrcKey(tasks[id]) \in srcFiles
            /\ action = "move" => SrcKey(tasks[id]) \notin srcFiles

C13_Witness ==
    /\ Finished /\ action = "move" /\ exit_status = 1
    /\ \E id \in TaskIds :
          /\ tasks[id].detail = "mismatch"
          /\ tasks[id].dst \in DestPaths
          /\ SrcKey(tasks[id]) \notin srcFiles

\* The shape of a directory as the source tree gives it.
CollapsesInTree(n) ==
    Cardinality(ChildSet(n)) = 1 /\ Tree[n].files = <<>>

Parent(n) == Tree[n].parent

\* The accumulated name a call on n receives, read off the source tree.
RECURSIVE AccOf(_)
AccOf(n) ==
    IF n = Root \/ ~CollapsesInTree(Parent(n)) THEN <<>>
    ELSE LET a == AccOf(Parent(n))
             sa == IF a # <<>> THEN sanitize_name(a) ELSE a
         IN  (IF sa # <<>> THEN sa ELSE basename(Parent(n)))
                 \o FLATTENING_SEPARATOR \o basename(n)

FinalNameOf(n) ==
    LET a == AccOf(n)
        sa == IF a # <<>> THEN sanitize_name(a) ELSE a
    IN  sanitize_name(IF sa # <<>> THEN sa ELSE basename(n))

\* a non-root branch or terminal directory whose final name is empty
EmptyNamed(n) ==
    n # Root /\ ~CollapsesInTree(n) /\ FinalNameOf(n) = <<>>

\* C14: when the final name of a non-root directory sanitizes to the empty
\* string, the call returns success (unless it failed before naming: the
\* listing failed, or the call raised on entry), no destination directory
\* is created for it, none of its files is submitted and none of its
\* subdirectories is visited.
C14_EmptyNameSkipped ==
    \A n \in Nodes :
        EmptyNamed(n) =>
            /\ \A c \in created : c.node # n
            /\ \A id \in TaskIds : tasks[id].dir # n
            /\ \A c \in ChildSet(n) : c \notin VisitedSet
            /\ \/ result[n] \in {"none", "true", "raise"}
               \/ [kind |-> "list", node |-> n] \in errors
            /\ result[n] = "true" =>
                  [kind |-> "empty", node |-> n] \in errors

C14_Witness ==
    /\ tid = 4 /\ EmptyNamed(4) /\ Finished /\ exit_status = 0
    /\ result[4] = "true" /\ 5 \notin VisitedSet
    /\ Tree[4].files # <<>> /\ ChildSet(4) # {}
    /\ \A e \in destFiles : Last(e.path) # Tree[4].files[1].name

Returned == san_pc = "returned"

\* the rule's pattern occurs in the name (a regex: matches somewhere)
Occurs(rule, name) ==
    \E i \in 1..Len(name) :
        MatchesAt(name, i, rule.pattern, rule.is_regex)

\* C15: if no rule's pattern occurs in the name, sanitize_name returns the
\* name unchanged; in particular with an empty rule list.
C15_NoMatchUnchanged ==
    ( /\ Returned
      /\ \A k \in 1..Len(SANITIZATION_RULES) :
            ~Occurs(SANITIZATION_RULES[k], san_name) )
    => san_out = san_name /\ sanitize_name(san_name) = san_name

C15_Witness ==
    /\ Returned /\ Len(SANITIZATION_RULES) = MaxRules /\ Len(san_name) >= 2
    /\ \A k \in 1..Len(SANITIZATION_RULES) :
          /\ SANITIZATION_RULES[k].pattern # <<>>
          /\ ~re_error(SANITIZATION_RULES[k].pattern)
          /\ ~Occurs(SANITIZATION_RULES[k], san_name)
    /\ \E k \in 1..Len(SANITIZATION_RULES) : SANITIZATION_RULES[k].is_regex
    /\ san_out = san_name

\* single-rule replacement folded over the first k rules, from the left
RECURSIVE FoldRules(_, _, _)
FoldRules(rules, k, name) ==
    IF k = 0 THEN name
    ELSE ApplyRule(rules[k], FoldRules(rules, k - 1, name))

\* C16: the rules are applied in list order, each to the output of the one
\* before it: the result is the left fold of single-rule replacement over
\* the rule list.
C16_LeftFold ==
    /\ san_pc \in {"start", "loop"} =>
          san_out = FoldRules(SANITIZATION_RULES, san_i - 1, san_name)
    /\ Returned =>
          /\ san_out = FoldRules(SANITIZATION_RULES, Len(SANITIZATION_RULES),
                                 san_name)
          /\ sanitize_name(san_name) = san_out

\* a later rule rewrites text that an earlier rule introduced
C16_Witness ==
    /\ Returned /\ Len(SANITIZATION_RULES) = 2
    /\ ApplyRule(SANITIZATION_RULES[2], san_name) = san_name
    /\ san_out # ApplyRule(SANITIZATION_RULES[1], san_name)
    /\ san_out # san_name

IsApplicable(rule) ==
    rule.pattern # <<>> /\ ~(rule.is_regex /\ re_error(rule.pattern))

\* C17: a rule with a malformed regular expression or an empty pattern
\* leaves the current name as it is, for that rule only: the loop goes on,
\* and the value returned is that of the rule list without such rules.
C17_BadRuleSkipped ==
    /\ ( /\ san_pc \in {"start", "loop"}
         /\ san_i <= Len(SANITIZATION_RULES)
         /\ ~IsApplicable(SANITIZATION_RULES[san_i]) )
       => ApplyRule(SANITIZATION_RULES[san_i], san_out) = san_out
    /\ Returned =>
          LET good == SelectSeq(SANITIZATION_RULES, IsApplicable)
          IN  /\ san_out = FoldRules(good, Len(good), san_name)
              /\ sanitize_name(san_name) = san_out
    /\ ~Returned => ENABLED SanNext

C17_Witness ==
    /\ Returned /\ Len(SANITIZATION_RULES) = 2
    /\ SANITIZATION_RULES[1].is_regex
    /\ re_error(SANITIZATION_RULES[1].pattern)
    /\ IsApplicable(SANITIZATION_RULES[2])
    /\ san_out # san_name

\* C18: sibling subtrees are never processed at the same time: all pending
\* and running transfers belong to one source directory, and a directory is
\* entered only after the call for every sibling listed before it has
\* returned, with nothing of that sibling's subtree still in flight.
C18_SiblingsInTurn ==
    /\ \A i, j \in InFlight : tasks[i].dir = tasks[j].dir
    /\ \A p \in Nodes :
          LET ds == child_dirs(p)
          IN  \A i, j \in 1..Len(ds) :
                  (i < j /\ ds[j] \in VisitedSet) =>
                      /\ result[ds[i]] = "true"
                      /\ \E a, b \in 1..Len(visited) :
                            a < b /\ visited[a] = ds[i] /\ visited[b] = ds[j]
                      /\ \A id \in InFlight :
                            tasks[id].dir \notin Subtree(ds[i])

C18_Witness ==
    /\ tid = 3 /\ result[2] = "true"
    /\ \E i, j \in InFlight : i # j /\ tasks[i].dir = 3 /\ tasks[j].dir = 3
    /\ faults = 0

\* C19: any two transfers that are pending or running at the same time have
\* different destination paths, also when two sibling directories resolve
\* to the same final directory name.
C19_DistinctDestinations ==
    \A i, j \in InFlight : i # j => tasks[i].dst # tasks[j].dst

\* the second of two transfers to one destination path is in flight, the
\* first has completed
C19_Witness ==
    /\ tid = 5
    /\ \E i \in InFlight :
          \E j \in TaskIds :
              /\ tasks[j].dir # tasks[i].dir
              /\ tasks[j].dst = tasks[i].dst
              /\ tasks[j].st = "done"

\* The coordinating thread has seen a failing transfer outcome: a transfer
\* of a directory has failed and the directory's call has ended on it.
ObservedFailure ==
    \E id \in TaskIds :
        /\ tasks[id].st = "done" /\ ~tasks[id].ok
        /\ result[tasks[id].dir] \in {"false", "raise"}

\* C20: once the coordinating thread has observed a failing transfer
\* outcome, no further transfer is submitted and no further destination
\* directory is created.
C20_NothingAfterFailure ==
    [][ObservedFailure =>
          /\ Len(tasks') = Len(tasks)
          /\ created' = created
          /\ destDirs' = destDirs
          /\ visited' = visited]_vars

C20_Witness ==
    /\ tid = 5 /\ Finished /\ ObservedFailure
    /\ Len(tasks) = 1 /\ tasks[1].dir = Root
    /\ VisitedSet \cap {2, 3, 4} = {}
    /\ \A c \in created : c.node = Root

\* C21: no dispatched transfer is aborted: every transfer submitted to the
\* pool runs to completion, also when another transfer of its directory
\* has already failed, and all have completed when the process reports its
\* status and exits; the process does exit.
C21_AllRunToCompletion ==
    /\ [](Finished => \A id \in TaskIds : tasks[id].st = "done")
    /\ (InFlight # {}) ~> (InFlight = {})
    /\ <>Finished

\* the coordinating thread has returned on a failed transfer of a
\* directory while another transfer of that directory has yet to run
C21_Witness ==
    /\ mainpc = "shutdown"
    /\ \E i \in TaskIds, j \in InState("pending") :
          /\ tasks[i].dir = tasks[j].dir
          /\ tasks[i].st = "done" /\ ~tasks[i].ok
          /\ result[tasks[i].dir] = "false"

\* the name the rules are given at a step: the accumulated name the call
\* received, or the directory's base name when that is empty
NameOrBase(f) == IF f.acc # <<>> THEN f.acc ELSE basename(f.node)

\* C22: at a collapse step the accumulated name carried into the single
\* child is sanitize(accumulated name received, or the directory's base
\* name) followed by the separator and the child's base name, both
\* unsanitized.
C22_CollapseCarriesSanitized ==
    \A k \in 1..(Len(stack) - 1) :
        stack[k].pc = "collapsed" =>
            stack[k + 1].acc =
                sanitize_name(NameOrBase(stack[k]))
                    \o FLATTENING_SEPARATOR \o basename(stack[k + 1].node)

\* A directory that materializes: not the root, not a collapsing level, not
\* skipped for an empty final name.
Materializes(n) == n # Root /\ ~CollapsesInTree(n) /\ ~EmptyNamed(n)

\* The destination_parent_path a call on n receives, and the destination
\* directory computed for n, read off the source tree.
RECURSIVE DestParentOf(_)
DestParentOf(n) ==
    IF n = Root THEN <<>>
    ELSE LET p == Parent(n)
         IN  IF CollapsesInTree(p) \/ p = Root THEN DestParentOf(p)
             ELSE Append(DestParentOf(p), FinalNameOf(p))

DestDirOf(n) ==
    IF n = Root THEN <<>> ELSE Append(DestParentOf(n), FinalNameOf(n))

CreatedFor(n) == {c \in created : c.node = n}

C24_SanitizedOnce ==
    \A k \in 1..Len(stack) :
        LET f == stack[k]
        IN  ( /\ f.pc \in {"submit", "wait", "recurse", "incall"}
              /\ ~(f.node = Root /\ f.acc = <<>>) )
            => Last(f.final) = sanitize_name(NameOrBase(f))

\* n was called before m
VisitedBefore(n, m) ==
    \E a, b \in 1..Len(visited) :
        a < b /\ visited[a] = n /\ visited[b] = m

\* Two directories of different sibling subtrees resolve to one destination
\* directory, n being the earlier in listing order.
Collide(n, m) ==
    /\ n # m /\ Materializes(n) /\ Materializes(m)
    /\ DestDirOf(n) = DestDirOf(m)
    /\ \E p \in Nodes :
          \E a, b \in 1..Len(child_dirs(p)) :
              /\ a < b
              /\ n \in Subtree(child_dirs(p)[a])
              /\ m \in Subtree(child_dirs(p)[b])

\* C25: when two sibling directories resolve to the same final directory
\* name under one destination parent, neither is failed or skipped for it:
\* the second is processed after the first into the same destination
\* directory, and a file name present in both ends with the content
\* written for the later sibling.
C25_LastWriteWins ==
    \A n, m \in Nodes :
        Collide(n, m) =>
            /\ m \in VisitedSet => VisitedBefore(n, m) /\ result[n] = "true"
            /\ (result[n] = "true" /\ faults = 0 /\ Finished) =>
                  /\ result[m] = "true" /\ exit_status = 0
                  /\ \A i \in 1..Len(Tree[m].files) :
                        \E id \in TaskIds :
                            tasks[id].dir = m /\ tasks[id].fidx = i
            /\ \A i, j \in TaskIds :
                  ( /\ tasks[i].dir = n /\ tasks[j].dir = m
                    /\ tasks[i].dst = tasks[j].dst
                    /\ tasks[j].st = "done" /\ tasks[j].ok )
                  => /\ tasks[i].st = "done" /\ tasks[i].ok
                     /\ \E e \in destFiles :
                           /\ e.path = tasks[j].dst
                           /\ tasks[j].fault = "none" =>
                                 e.data = SrcData(tasks[j])

C25_Witness ==
    /\ Finished /\ exit_status = 0 /\ faults = 0
    /\ \E n, m \in Nodes :
          /\ Collide(n, m)
          /\ \E i, j \in TaskIds :
                /\ tasks[i].dir = n /\ tasks[j].dir = m
                /\ tasks[i].dst = tasks[j].dst
                /\ tasks[i].ok /\ tasks[j].ok
                /\ SrcData(tasks[i]) # SrcData(tasks[j])
                /\ [path |-> tasks[j].dst, data |-> SrcData(tasks[j])]
                       \in destFiles
                /\ \A e \in destFiles :
                      e.path = tasks[i].dst => e.data # SrcData(tasks[i])

\* C26: when listing a source directory fails, or creating its destination
\* directory fails, the call for that directory returns failure, no
\* transfer of its files is submitted, none of its subdirectories is
\* visited, and the run ends with a non-zero exit status.
C26_DirectoryErrorFails ==
    \A e \in errors :
        e.kind \in {"list", "mkdir"} =>
            /\ result[e.node] = "false"
            /\ \A id \in TaskIds : tasks[id].dir # e.node
            /\ \A c \in ChildSet(e.node) : c \notin VisitedSet
            /\ \A c \in created : c.node # e.node
            /\ mainpc \in {"shutdown", "done"} => ~success
            /\ Finished => exit_status = 1

C26_Witness ==
    /\ Finished /\ exit_status = 1
    /\ \E e \in errors :
          /\ e.kind = "mkdir"
          /\ Tree[e.node].files # <<>> /\ ChildSet(e.node) # {}
          /\ \A id \in TaskIds : tasks[id].ok /\ tasks[id].dir # e.node
    /\ tasks # <<>>

OriginalData(k) == Tree[k[1]].files[k[2]].data
CurrentData(k) == SrcData([dir |-> k[1], fidx |-> k[2]])

\* the transfer of source file k has been handed to a worker
Dispatched(k) ==
    \E id \in TaskIds :
        SrcKey(tasks[id]) = k /\ tasks[id].st \in {"running", "done"}

\* C27: in copy mode every source file exists with its original content,
\* whatever has been done so far; in move mode the only change to the
\* source tree is the removal of files whose transfer was dispatched: the
\* files that are there hold their original content, files of unvisited
\* directories are there, and the source directories are there.
C27_SourceUntouched ==
    /\ action = "copy" =>
          \A k \in AllSrcKeys :
              k \in srcFiles /\ CurrentData(k) = OriginalData(k)
    /\ action = "move" =>
          \A k \in AllSrcKeys :
              /\ k \notin srcFiles => Dispatched(k)
              /\ k \in srcFiles => CurrentData(k) = OriginalData(k)
              /\ k[1] \notin VisitedSet => k \in srcFiles
    /\ overlap => \A n \in Nodes : SrcDirPath(n) \in destDirs

\* n or a directory above it is skipped for an empty final name
RECURSIVE UnderSkipped(_)
UnderSkipped(n) ==
    EmptyNamed(n) \/ (n # Root /\ UnderSkipped(Parent(n)))

\* exactly one transfer was submitted for source file k; it has completed
\* with success and its destination is the file's base name in the
\* destination directory of the file's directory
TransferredOnce(k) ==
    /\ Cardinality({id \in TaskIds : SrcKey(tasks[id]) = k}) = 1
    /\ \A id \in TaskIds :
          SrcKey(tasks[id]) = k =>
              /\ tasks[id].st = "done" /\ tasks[id].ok
              /\ tasks[id].dst =
                     Append(DestDirOf(k[1]), Tree[k[1]].files[k[2]].name)

\* C28 as stated: if the root traversal returns True, every file of the
\* source tree that lies in a directory not skipped for an empty final name
\* has had exactly one transfer, completed with success, to its base name
\* in the destination directory of its source directory.
C28_AllFilesTransferred ==
    result[Root] = "true" =>
        \A k \in AllSrcKeys : ~EmptyNamed(k[1]) => TransferredOnce(k)

\* C28 amended: the same for every file of a directory that is neither
\* skipped for an empty final name nor below a directory skipped for it.
C28_AllVisitedFilesTransferred ==
    result[Root] = "true" =>
        \A k \in AllSrcKeys : ~UnderSkipped(k[1]) => TransferredOnce(k)

\* a successful run that skipped a directory: the files beside it were
\* transferred, those of the directory below it were not
C28_Witness ==
    /\ Finished /\ exit_status = 0 /\ result[Root] = "true"
    /\ \E n \in Nodes :
          /\ EmptyNamed(n)
          /\ \E c \in ChildSet(n) :
                /\ Tree[c].files # <<>> /\ ~EmptyNamed(c)
                /\ \A id \in TaskIds : tasks[id].dir # c
    /\ \E k \in AllSrcKeys : ~UnderSkipped(k[1]) /\ k[1] # Root
    /\ \A k \in AllSrcKeys : ~UnderSkipped(k[1]) => TransferredOnce(k)

====
